---- MODULE Spec2Model ----
(***************************************************************************)
(* Model of the conditional file-fetch cache of ulmo/util/misc.py:         *)
(* download_if_new, open_file_for_url and the HTTP / FTP helpers they      *)
(* call.  One destination path, one URL and its remote resource; callers   *)
(* start calls while their quota lasts.                                    *)
(*                                                                         *)
(* Sizes are counted in write blocks (one block = one chunk handed to      *)
(* f.write).  Timestamps are whole seconds.  A remote last-modified value  *)
(* is the naive GMT time the server reports; the local modification time   *)
(* is the epoch mtime of the file, which _path_last_modified turns into a  *)
(* naive LOCAL time (datetime.fromtimestamp), i.e. mtime + tz.             *)
(***************************************************************************)
EXTENDS Integers, Sequences, FiniteSets, TLC

\* ------------------------------------------------------------------ bounds
MaxSize == 2
MaxTime == 2
MaxCalls == 2
NProcs == 2

\* one block per f.write call (chunk_size = 64 * 1024 bytes is one unit)
ChunkSize == 1

Procs == 1..NProcs

\* ------------------------------------------------------- optional values
None == <<>>
Some(v) == <<v>>

\* ----------------------------------------------------------- URL schemes
\* a scheme is the sequence of its characters, so that startswith is computed
SchemeHttp == <<"h","t","t","p">>
SchemeHttps == <<"h","t","t","p","s">>
SchemeFtp == <<"f","t","p">>
SchemeFtps == <<"f","t","p","s">>
SchemeFile == <<"f","i","l","e">>
SchemeEmpty == <<>>

Schemes ==
  {SchemeHttp, SchemeHttps, SchemeFtp, SchemeFtps, SchemeFile, SchemeEmpty}

\* str.startswith
StartsWith(s, prefix) ==
  /\ Len(s) >= Len(prefix)
  /\ SubSeq(s, 1, Len(prefix)) = prefix

\* the branch download_if_new takes for a parsed scheme
DispatchBranch(scheme) ==
  IF StartsWith(scheme, SchemeFtp) THEN "ftp"
  ELSE IF StartsWith(scheme, SchemeHttp) THEN "http"
  ELSE "unsupported"

\* ------------------------------------------------------------ local file
NoFile == [exists |-> FALSE, size |-> 0, mtime |-> 0, body |-> "none"]

\* _path_last_modified
PathLastModified(f, tzoff) ==
  IF ~f.exists THEN None ELSE Some(f.mtime + tzoff)

\* faulty variant: compares with >= instead of ==
RequestFileSizeMatchesGe(h, f) ==
  IF h.size # None /\ h.size[1] >= f.size THEN TRUE ELSE FALSE

\* faulty variant: a missing content-length counts as a match
RequestFileSizeMatchesLax(h, f) ==
  IF h.size = None \/ h.size[1] = f.size THEN TRUE ELSE FALSE

\* _request_file_size_matches: content_length and int(content_length) == getsize
RequestFileSizeMatches(h, f) ==
  IF h.size # None /\ h.size[1] = f.size THEN TRUE ELSE FALSE

\* faulty variant: an equal timestamp counts as newer
RequestIsNewerThanFileGe(h, f, tzoff) ==
  LET path_last_modified == PathLastModified(f, tzoff) IN
  IF path_last_modified = None THEN [newer |-> TRUE, warn |-> FALSE]
  ELSE IF h.lm = None THEN [newer |-> TRUE, warn |-> TRUE]
  ELSE IF h.lm[1] >= path_last_modified[1] THEN [newer |-> TRUE, warn |-> FALSE]
  ELSE [newer |-> FALSE, warn |-> FALSE]

\* faulty variant: a missing last-modified is reported but not fetched
RequestIsNewerThanFileNoLm(h, f, tzoff) ==
  LET path_last_modified == PathLastModified(f, tzoff) IN
  IF path_last_modified = None THEN [newer |-> TRUE, warn |-> FALSE]
  ELSE IF h.lm = None THEN [newer |-> FALSE, warn |-> TRUE]
  ELSE IF h.lm[1] > path_last_modified[1] THEN [newer |-> TRUE, warn |-> FALSE]
  ELSE [newer |-> FALSE, warn |-> FALSE]

\* _request_is_newer_than_file: result and whether warnings.warn was called
RequestIsNewerThanFile(h, f, tzoff) ==
  LET path_last_modified == PathLastModified(f, tzoff) IN
  IF path_last_modified = None THEN [newer |-> TRUE, warn |-> FALSE]
  ELSE IF h.lm = None THEN [newer |-> TRUE, warn |-> TRUE]
  ELSE IF h.lm[1] > path_last_modified[1] THEN [newer |-> TRUE, warn |-> FALSE]
  ELSE [newer |-> FALSE, warn |-> FALSE]

\* faulty variant: the size test is only made for an existing file and the
\* missing file is forgotten
HttpFirstTestNoExists(h, f) ==
  f.exists /\ ~RequestFileSizeMatches(h, f)

\* the two conditions of _http_download_if_new, with Python's short circuit
HttpFirstTest(h, f) ==
  ~f.exists \/ ~RequestFileSizeMatches(h, f)

\* faulty variant: check_modified is not looked at
HttpSecondTestAlways(h, f, cm, tzoff) ==
  RequestIsNewerThanFile(h, f, tzoff).newer

HttpSecondTest(h, f, cm, tzoff) ==
  cm /\ RequestIsNewerThanFile(h, f, tzoff).newer

HttpShouldFetch(h, f, cm, tzoff) ==
  HttpFirstTest(h, f) \/ HttpSecondTest(h, f, cm, tzoff)

\* faulty variant: the timestamp test is evaluated before the size test
HttpWarnsEager(h, f, cm, tzoff) ==
  cm /\ RequestIsNewerThanFile(h, f, tzoff).warn

HttpWarns(h, f, cm, tzoff) ==
  /\ ~HttpFirstTest(h, f)
  /\ cm
  /\ RequestIsNewerThanFile(h, f, tzoff).warn

\* the two conditions of _ftp_download_if_new
\* faulty variant: the size of an existing file is not compared
FtpFirstTestNoSize(h, f) ==
  ~f.exists

FtpFirstTest(h, f) ==
  ~f.exists \/ Some(f.size) # h.size

\* faulty variant: an equal timestamp counts as older
FtpSecondTestLe(h, f, cm, tzoff) ==
  cm /\ PathLastModified(f, tzoff)[1] <= h.lm[1]

FtpSecondTest(h, f, cm, tzoff) ==
  cm /\ PathLastModified(f, tzoff)[1] < h.lm[1]

FtpShouldFetch(h, f, cm, tzoff) ==
  FtpFirstTest(h, f) \/ FtpSecondTest(h, f, cm, tzoff)

\* ------------------------------------------------------------------ state
VARIABLES
  file,      \* the destination file: exists, size, mtime (epoch), body
  dirThere,  \* does the parent directory of the destination path exist
  tz,        \* offset of local time from GMT, in seconds of the model
  now,       \* the clock
  remote,    \* the remote resource: len, hasLen, lm
  scheme,    \* the parsed scheme of the URL of that resource
  quota,     \* calls each caller may still start
  pc,        \* position of each caller
  call,      \* arguments of the running call and the file as it was at entry
  head,      \* probe result: size and lm as reported
  resp,      \* status of the response to the GET of the running call, or 0
  seen,      \* the local file as inspected by the staleness decision
  dec,       \* "none", "fetch" or "skip"
  events,    \* what the running call has done so far
  wpos,      \* write offset of the caller's open 'wb' file object
  handle,    \* the 'rb' handle of open_file_for_url: none, open, closed
  rdsize,    \* size of the file when the 'rb' handle was opened
  err,       \* exception that left the call, or "none"
  synced,    \* has the download_if_new of the running call returned normally
  prev       \* summary of the caller's previous call

vars == <<file, dirThere, tz, now, remote, scheme, quota, pc, call, head,
          resp, seen, dec, events, wpos, handle, rdsize, err, synced, prev>>

fsVars == <<file, dirThere>>
envVars == <<tz, remote, scheme>>

NoCall == [cm |-> FALSE, pre |-> NoFile]
NoHead == [size |-> None, lm |-> None]
NoPrev == [synced |-> FALSE, dec |-> "none", transfers |-> 0, absent |-> FALSE]

\* number of occurrences of an event in a sequence of events
Count(evs, e) == Cardinality({i \in 1..Len(evs) : evs[i] = e})

Remotes ==
  [len : 1..MaxSize, hasLen : BOOLEAN,
   lm : {None} \cup {Some(t) : t \in 1..MaxTime}]

\* status codes a server answers with: success, or an error page
Statuses == {200, 404}

\* an FTP server always answers SIZE; a URL that is not dispatched reaches no
\* server at all
RemotesOf(branch) ==
  IF branch = "http" THEN Remotes
  ELSE IF branch = "ftp" THEN {r \in Remotes : r.hasLen}
  ELSE {[len |-> 1, hasLen |-> TRUE, lm |-> None]}

\* body of a response: the resource itself, or the error page
BodyOf(status) == IF status \in 200..299 THEN "resource" ELSE "errorpage"

TzOffsets == {-1, 0, 1}

InitFiles ==
  {NoFile} \cup
  {[exists |-> TRUE, size |-> s, mtime |-> 1, body |-> "old"] : s \in 0..MaxSize}

InitCommon ==
  /\ file \in InitFiles
  /\ dirThere \in BOOLEAN
  /\ file.exists => dirThere
  /\ tz \in TzOffsets
  /\ now = 1
  /\ scheme \in Schemes
  \* the offsets from GMT are tried with the plain http and ftp urls
  /\ scheme \notin {SchemeHttp, SchemeFtp} => tz = 0
  /\ remote \in RemotesOf(DispatchBranch(scheme))
  /\ pc = [p \in Procs |-> "idle"]
  /\ call = [p \in Procs |-> NoCall]
  /\ head = [p \in Procs |-> NoHead]
  /\ resp = [p \in Procs |-> 0]
  /\ seen = [p \in Procs |-> NoFile]
  /\ dec = [p \in Procs |-> "none"]
  /\ events = [p \in Procs |-> <<>>]
  /\ wpos = [p \in Procs |-> 0]
  /\ handle = [p \in Procs |-> "none"]
  /\ rdsize = [p \in Procs |-> 0]
  /\ err = [p \in Procs |-> "none"]
  /\ synced = [p \in Procs |-> FALSE]
  /\ prev = [p \in Procs |-> NoPrev]

\* a single caller: the program as the spec describes it (section 5)
Init ==
  /\ InitCommon
  /\ quota = [p \in Procs |-> IF p = 1 THEN MaxCalls ELSE 0]

\* two callers with one call each on the same destination path, a remote
\* resource of full size and a local file that is absent or complete
ConcCallers == {1, 2}

InitConc ==
  /\ InitCommon
  /\ dirThere
  /\ tz = 0
  /\ file.exists => file.size = MaxSize
  /\ remote.len = MaxSize
  /\ remote.hasLen
  /\ remote.lm # None => remote.lm = Some(MaxTime)
  /\ quota = [p \in Procs |-> IF p \in ConcCallers THEN 1 ELSE 0]

\* is caller p between the open(path, 'wb') and the end of the with block of
\* its fetcher
Writing(p) == pc[p] \in {"http_write", "ftp_retr", "ftp_recv"}

\* ---------------------------------------------------------------- helpers
Raise(p, e) ==
  /\ pc' = [pc EXCEPT ![p] = "raised"]
  /\ err' = [err EXCEPT ![p] = e]

Log(p, e) == events' = [events EXCEPT ![p] = Append(@, e)]

\* body transfers a call has started: GET requests and RETR commands
Transfers(evs) == Count(evs, "get") + Count(evs, "retr")

Summary(p) ==
  [synced |-> synced[p], dec |-> dec[p], transfers |-> Transfers(events[p]),
   absent |-> ~call[p].pre.exists]

\* ---------------------------------------------------------------- actions
\* faulty variant: the file is opened for reading before the sync step
CallDownloadIfNewOpenFirst(p) ==
  /\ pc[p] \in {"idle", "done", "raised"}
  /\ quota[p] > 0
  /\ quota' = [quota EXCEPT ![p] = @ - 1]
  /\ \E cm \in BOOLEAN :
       call' = [call EXCEPT ![p] = [cm |-> cm, pre |-> file]]
  /\ prev' = [prev EXCEPT ![p] = IF pc[p] = "idle" THEN NoPrev ELSE Summary(p)]
  /\ pc' = [pc EXCEPT ![p] = "dispatch"]
  /\ head' = [head EXCEPT ![p] = NoHead]
  /\ resp' = [resp EXCEPT ![p] = 0]
  /\ seen' = [seen EXCEPT ![p] = NoFile]
  /\ dec' = [dec EXCEPT ![p] = "none"]
  /\ events' = [events EXCEPT ![p] = <<>>]
  /\ wpos' = [wpos EXCEPT ![p] = 0]
  /\ handle' = [handle EXCEPT ![p] = IF file.exists THEN "open" ELSE "none"]
  /\ rdsize' = [rdsize EXCEPT ![p] = file.size]
  /\ err' = [err EXCEPT ![p] = "none"]
  /\ synced' = [synced EXCEPT ![p] = FALSE]
  /\ UNCHANGED <<fsVars, envVars, now>>

\* download_if_new is entered, from user code or from line 100 of
\* open_file_for_url: which of the two shows only when it returns (Return,
\* ReturnToOpenFileForUrl); an exception passes through both alike
CallDownloadIfNew(p) ==
  /\ pc[p] \in {"idle", "done", "raised"}
  /\ quota[p] > 0
  /\ quota' = [quota EXCEPT ![p] = @ - 1]
  /\ \E cm \in BOOLEAN :
       call' = [call EXCEPT ![p] = [cm |-> cm, pre |-> file]]
  /\ prev' = [prev EXCEPT ![p] = IF pc[p] = "idle" THEN NoPrev ELSE Summary(p)]
  /\ pc' = [pc EXCEPT ![p] = "dispatch"]
  /\ head' = [head EXCEPT ![p] = NoHead]
  /\ resp' = [resp EXCEPT ![p] = 0]
  /\ seen' = [seen EXCEPT ![p] = NoFile]
  /\ dec' = [dec EXCEPT ![p] = "none"]
  /\ events' = [events EXCEPT ![p] = <<>>]
  /\ wpos' = [wpos EXCEPT ![p] = 0]
  /\ handle' = [handle EXCEPT ![p] = "none"]
  /\ rdsize' = [rdsize EXCEPT ![p] = 0]
  /\ err' = [err EXCEPT ![p] = "none"]
  /\ synced' = [synced EXCEPT ![p] = FALSE]
  /\ UNCHANGED <<fsVars, envVars, now>>

\* faulty variant: an http url goes to the fetcher without the probe
DispatchNoProbe(p) ==
  /\ pc[p] = "dispatch"
  /\ LET b == DispatchBranch(scheme) IN
       \/ /\ b = "ftp"
          /\ pc' = [pc EXCEPT ![p] = "ftp_connect"]
          /\ UNCHANGED err
       \/ /\ b = "http"
          /\ pc' = [pc EXCEPT ![p] = "http_get"]
          /\ UNCHANGED err
       \/ /\ b = "unsupported"
          /\ Raise(p, "NotImplementedError")
  /\ UNCHANGED <<fsVars, envVars, now, quota, call, head, seen, dec, events,
                 wpos, handle, rdsize, prev, synced, resp>>

\* download_if_new: dispatch on the parsed scheme
Dispatch(p) ==
  /\ pc[p] = "dispatch"
  /\ LET b == DispatchBranch(scheme) IN
       \/ /\ b = "ftp"
          /\ pc' = [pc EXCEPT ![p] = "ftp_connect"]
          /\ UNCHANGED err
       \/ /\ b = "http"
          /\ pc' = [pc EXCEPT ![p] = "http_head"]
          /\ UNCHANGED err
       \/ /\ b = "unsupported"
          /\ Raise(p, "NotImplementedError")
  /\ UNCHANGED <<fsVars, envVars, now, quota, call, head, seen, dec, events,
                 wpos, handle, rdsize, prev, synced, resp>>

\* ------------------------------------------------------------ HTTP branch
\* faulty variant: a failed HEAD is retried once
HttpHeadRetry(p) ==
  /\ pc[p] = "http_head"
  /\ Log(p, "head")
  /\ \/ /\ IF Count(events[p], "head") = 0
           THEN UNCHANGED <<pc, err>>
           ELSE Raise(p, "TransportError")
        /\ UNCHANGED head
     \/ /\ head' = [head EXCEPT ![p] =
                      [size |-> IF remote.hasLen THEN Some(remote.len) ELSE None,
                       lm |-> remote.lm]]
        /\ pc' = [pc EXCEPT ![p] = "http_decide"]
        /\ UNCHANGED err
  /\ UNCHANGED <<fsVars, envVars, now, quota, call, seen, dec, wpos, handle,
                 rdsize, prev, synced, resp>>

\* _http_download_if_new, line 179: head = requests.head(url)
HttpHead(p) ==
  /\ pc[p] = "http_head"
  /\ Log(p, "head")
  /\ \/ /\ Raise(p, "TransportError")
        /\ UNCHANGED head
     \/ /\ head' = [head EXCEPT ![p] =
                      [size |-> IF remote.hasLen THEN Some(remote.len) ELSE None,
                       lm |-> remote.lm]]
        /\ pc' = [pc EXCEPT ![p] = "http_decide"]
        /\ UNCHANGED err
  /\ UNCHANGED <<fsVars, envVars, now, quota, call, seen, dec, wpos, handle,
                 rdsize, prev, synced, resp>>

\* _http_download_if_new, lines 180-183: the staleness decision
HttpDecide(p) ==
  /\ pc[p] = "http_decide"
  /\ seen' = [seen EXCEPT ![p] = file]
  /\ events' = [events EXCEPT ![p] =
                  IF HttpWarns(head[p], file, call[p].cm, tz)
                  THEN @ \o <<"decide", "warn">> ELSE Append(@, "decide")]
  /\ IF HttpShouldFetch(head[p], file, call[p].cm, tz)
     THEN /\ dec' = [dec EXCEPT ![p] = "fetch"]
          /\ pc' = [pc EXCEPT ![p] = "http_get"]
     ELSE /\ dec' = [dec EXCEPT ![p] = "skip"]
          /\ pc' = [pc EXCEPT ![p] = "returned"]
  /\ UNCHANGED <<fsVars, envVars, now, quota, call, head, wpos, handle,
                 rdsize, err, prev, synced, resp>>

\* _http_download_file, line 170: request = requests.get(url)
\* (requests raises for a failed connection, never for a status code)
HttpGet(p) ==
  /\ pc[p] = "http_get"
  /\ Log(p, "get")
  /\ \/ /\ Raise(p, "TransportError")
        /\ UNCHANGED resp
     \/ /\ \E status \in Statuses : resp' = [resp EXCEPT ![p] = status]
        /\ pc' = [pc EXCEPT ![p] = "http_mkdir"]
        /\ UNCHANGED err
  /\ UNCHANGED <<fsVars, envVars, now, quota, call, head, seen, dec, wpos,
                 handle, rdsize, prev, synced>>

\* mkdir_if_doesnt_exist: the directory exists afterwards
MkdirIfDoesntExist(there) ==
  IF ~there THEN TRUE ELSE there

\* _http_download_file, line 171: mkdir_if_doesnt_exist(os.path.dirname(path))
\* (the destination path has a directory part)
HttpMkdir(p) ==
  /\ pc[p] = "http_mkdir"
  /\ dirThere' = MkdirIfDoesntExist(dirThere)
  /\ pc' = [pc EXCEPT ![p] = "http_open"]
  /\ UNCHANGED err
  /\ UNCHANGED <<file, envVars, now, quota, call, head, seen, dec, events,
                 wpos, handle, rdsize, prev, synced, resp>>

\* open(path, 'wb'): creates or truncates the file
OpenForWrite(p, nextpc, body) ==
  /\ IF dirThere
     THEN /\ file' = [exists |-> TRUE, size |-> 0, mtime |-> now, body |-> body]
          /\ pc' = [pc EXCEPT ![p] = nextpc]
          /\ UNCHANGED err
     ELSE /\ Raise(p, "IOError(ENOENT)")
          /\ UNCHANGED file
  /\ wpos' = [wpos EXCEPT ![p] = 0]
  /\ UNCHANGED <<dirThere, envVars, now, quota, call, head, seen, dec, events,
                 handle, rdsize, prev, synced, resp>>

\* f.write(block) at the caller's own offset, or the end of the with block
WriteBlocks(p, failure) ==
  IF wpos[p] >= remote.len
  THEN /\ pc' = [pc EXCEPT ![p] = "returned"]
       /\ UNCHANGED <<file, wpos, err>>
  ELSE \/ /\ file' = [file EXCEPT
                        !.size = IF wpos[p] + ChunkSize > @
                                 THEN wpos[p] + ChunkSize ELSE @,
                        !.mtime = now]
          /\ wpos' = [wpos EXCEPT ![p] = @ + ChunkSize]
          /\ UNCHANGED <<pc, err>>
       \/ /\ Raise(p, failure)
          /\ UNCHANGED <<file, wpos>>

\* _http_download_file, line 173
HttpOpen(p) ==
  /\ pc[p] = "http_open"
  /\ OpenForWrite(p, "http_write", BodyOf(resp[p]))

\* _http_download_file, lines 174-175
HttpWrite(p) ==
  /\ pc[p] = "http_write"
  /\ WriteBlocks(p, "IOError(ENOSPC)")
  /\ UNCHANGED <<dirThere, envVars, now, quota, call, head, seen, dec, events,
                 handle, rdsize, prev, synced, resp>>

\* ------------------------------------------------------------- FTP branch
\* _ftp_download_if_new, lines 142-144: ftplib.FTP(parsed.netloc, "anonymous")
FtpConnect(p) ==
  /\ pc[p] = "ftp_connect"
  /\ Log(p, "connect")
  /\ \/ Raise(p, "TransportError")
     \/ /\ pc' = [pc EXCEPT ![p] = "ftp_mdtm"]
        /\ UNCHANGED err
  /\ UNCHANGED <<fsVars, envVars, now, quota, call, head, seen, dec, wpos,
                 handle, rdsize, prev, synced, resp>>

\* _ftp_last_modified: MDTM; a server without a timestamp answers an error
FtpLastModified(p) ==
  /\ pc[p] = "ftp_mdtm"
  /\ Log(p, "mdtm")
  /\ \/ /\ Raise(p, "TransportError")
        /\ UNCHANGED head
     \/ /\ remote.lm # None
        /\ head' = [head EXCEPT ![p].lm = remote.lm]
        /\ pc' = [pc EXCEPT ![p] = "ftp_size"]
        /\ UNCHANGED err
  /\ UNCHANGED <<fsVars, envVars, now, quota, call, seen, dec, wpos, handle,
                 rdsize, prev, synced, resp>>

\* _ftp_file_size: TYPE I, SIZE
FtpFileSize(p) ==
  /\ pc[p] = "ftp_size"
  /\ Log(p, "size")
  /\ \/ /\ Raise(p, "TransportError")
        /\ UNCHANGED head
     \/ /\ head' = [head EXCEPT ![p].size = Some(remote.len)]
        /\ pc' = [pc EXCEPT ![p] = "ftp_decide"]
        /\ UNCHANGED err
  /\ UNCHANGED <<fsVars, envVars, now, quota, call, seen, dec, wpos, handle,
                 rdsize, prev, synced, resp>>

\* faulty variant: a skipped sync touches the local file
FtpDecideTouch(p) ==
  /\ pc[p] = "ftp_decide"
  /\ seen' = [seen EXCEPT ![p] = file]
  /\ Log(p, "decide")
  /\ IF FtpShouldFetch(head[p], file, call[p].cm, tz)
     THEN /\ dec' = [dec EXCEPT ![p] = "fetch"]
          /\ pc' = [pc EXCEPT ![p] = "ftp_open"]
          /\ UNCHANGED file
     ELSE /\ dec' = [dec EXCEPT ![p] = "skip"]
          /\ pc' = [pc EXCEPT ![p] = "returned"]
          /\ file' = [file EXCEPT !.mtime = now]
  /\ UNCHANGED <<dirThere, envVars, now, quota, call, head, wpos, handle,
                 rdsize, err, prev, synced, resp>>

\* _ftp_download_if_new, lines 148-151: the staleness decision
FtpDecide(p) ==
  /\ pc[p] = "ftp_decide"
  /\ seen' = [seen EXCEPT ![p] = file]
  /\ Log(p, "decide")
  /\ IF FtpShouldFetch(head[p], file, call[p].cm, tz)
     THEN /\ dec' = [dec EXCEPT ![p] = "fetch"]
          /\ pc' = [pc EXCEPT ![p] = "ftp_open"]
     ELSE /\ dec' = [dec EXCEPT ![p] = "skip"]
          /\ pc' = [pc EXCEPT ![p] = "returned"]
  /\ UNCHANGED <<fsVars, envVars, now, quota, call, head, wpos, handle,
                 rdsize, err, prev, synced, resp>>

\* _ftp_download_file, line 155: open(local_path, 'wb'), no directory is made
FtpOpen(p) ==
  /\ pc[p] = "ftp_open"
  /\ OpenForWrite(p, "ftp_retr", "resource")

\* _ftp_download_file, line 156: the RETR command is sent
FtpRetr(p) ==
  /\ pc[p] = "ftp_retr"
  /\ Log(p, "retr")
  /\ \/ Raise(p, "TransportError")
     \/ /\ pc' = [pc EXCEPT ![p] = "ftp_recv"]
        /\ UNCHANGED err
  /\ UNCHANGED <<fsVars, envVars, now, quota, call, head, seen, dec, wpos,
                 handle, rdsize, prev, synced, resp>>

\* _ftp_download_file, line 156: each received block goes to f.write
FtpRecv(p) ==
  /\ pc[p] = "ftp_recv"
  /\ WriteBlocks(p, "TransportError")
  /\ UNCHANGED <<dirThere, envVars, now, quota, call, head, seen, dec, events,
                 handle, rdsize, prev, synced, resp>>

\* ------------------------------------------------------ open_file_for_url
\* download_if_new has returned to its caller
ReturnTo(p, nextpc) ==
  /\ pc[p] = "returned"
  /\ pc' = [pc EXCEPT ![p] = nextpc]
  /\ synced' = [synced EXCEPT ![p] = TRUE]
  /\ UNCHANGED <<fsVars, envVars, now, quota, call, head, seen, dec, events,
                 wpos, handle, rdsize, err, prev, resp>>

\* download_if_new was called by user code
Return(p) == ReturnTo(p, "done")

\* download_if_new was called by open_file_for_url, which goes on at line 101
ReturnToOpenFileForUrl(p) == ReturnTo(p, "open_read")

\* faulty variant: the open waits for a lock held by a writing caller
OpenReadLocked(p) ==
  /\ pc[p] = "open_read"
  /\ \A q \in Procs \ {p} : ~Writing(q)
  /\ IF file.exists
     THEN /\ handle' = [handle EXCEPT ![p] = "open"]
          /\ rdsize' = [rdsize EXCEPT ![p] = file.size]
          /\ Log(p, "open_r")
          /\ pc' = [pc EXCEPT ![p] = "yielded"]
          /\ UNCHANGED err
     ELSE /\ Raise(p, "IOError(ENOENT)")
          /\ UNCHANGED <<handle, rdsize, events>>
  /\ UNCHANGED <<fsVars, envVars, now, quota, call, head, seen, dec, wpos,
                 prev, synced, resp>>

\* line 101: open_file = open(path, 'rb'), then the yield of line 102
OpenRead(p) ==
  /\ pc[p] = "open_read"
  /\ IF file.exists
     THEN /\ handle' = [handle EXCEPT ![p] = "open"]
          /\ rdsize' = [rdsize EXCEPT ![p] = file.size]
          /\ Log(p, "open_r")
          /\ pc' = [pc EXCEPT ![p] = "yielded"]
          /\ UNCHANGED err
     ELSE /\ Raise(p, "IOError(ENOENT)")
          /\ UNCHANGED <<handle, rdsize, events>>
  /\ UNCHANGED <<fsVars, envVars, now, quota, call, head, seen, dec, wpos, prev, synced, resp>>

\* the caller's with block ends normally: the generator resumes after the
\* yield and runs line 103, open_file.close()
BlockEnds(p) ==
  /\ pc[p] = "yielded"
  /\ handle' = [handle EXCEPT ![p] = "closed"]
  /\ pc' = [pc EXCEPT ![p] = "done"]
  /\ UNCHANGED <<fsVars, envVars, now, quota, call, head, seen, dec, events,
                 wpos, rdsize, err, prev, synced, resp>>

\* the caller's with block raises: contextmanager throws the exception into
\* the generator at the yield of line 102; nothing catches it there, so
\* line 103 is not run and the exception leaves the with statement
BlockRaises(p) ==
  /\ pc[p] = "yielded"
  /\ Raise(p, "BlockError")
  /\ UNCHANGED <<fsVars, envVars, now, quota, call, head, seen, dec, events,
                 wpos, handle, rdsize, prev, synced, resp>>

\* ------------------------------------------------------------ environment
\* the clock has whole seconds: a call reads and writes within one of them,
\* time passes between calls
Tick ==
  /\ now < MaxTime
  /\ \A p \in Procs : pc[p] \in {"idle", "done", "raised"}
  /\ now' = now + 1
  /\ UNCHANGED <<fsVars, envVars, quota, pc, call, head, seen, dec, events,
                 wpos, handle, rdsize, err, prev, synced, resp>>

Next ==
  \/ Tick
  \/ \E p \in Procs : CallDownloadIfNew(p)
  \/ \E p \in Procs : Dispatch(p)
  \/ \E p \in Procs : HttpHead(p)
  \/ \E p \in Procs : HttpDecide(p)
  \/ \E p \in Procs : HttpGet(p)
  \/ \E p \in Procs : HttpMkdir(p)
  \/ \E p \in Procs : HttpOpen(p)
  \/ \E p \in Procs : HttpWrite(p)
  \/ \E p \in Procs : FtpConnect(p)
  \/ \E p \in Procs : FtpLastModified(p)
  \/ \E p \in Procs : FtpFileSize(p)
  \/ \E p \in Procs : FtpDecide(p)
  \/ \E p \in Procs : FtpOpen(p)
  \/ \E p \in Procs : FtpRetr(p)
  \/ \E p \in Procs : FtpRecv(p)
  \/ \E p \in Procs : Return(p)
  \/ \E p \in Procs : ReturnToOpenFileForUrl(p)
  \/ \E p \in Procs : OpenRead(p)
  \/ \E p \in Procs : BlockEnds(p)
  \/ \E p \in Procs : BlockRaises(p)

Spec == Init /\ [][Next]_vars

\* the same program with two interleaved callers
SpecConc == InitConc /\ [][Next]_vars

TypeOK ==
  /\ file.size \in 0..MaxSize
  /\ now \in 1..MaxTime
  /\ \A p \in Procs : wpos[p] \in 0..MaxSize

\* ==================================================================
\* Properties
\* ==================================================================
\* the decision of the running call of p has been taken
Decided(p) == dec[p] # "none"

\* the metadata probe of the running call of p failed
ProbeEvents == {"head", "connect", "mdtm", "size"}

ProbeFailed(p) ==
  /\ pc[p] = "raised"
  /\ err[p] = "TransportError"
  /\ Len(events[p]) > 0
  /\ events[p][Len(events[p])] \in ProbeEvents

\* C1: on the HTTP and on the FTP branch alike, a decision taken with a
\* remote size that is present and a local file that exists with another
\* size is a decision to fetch, whatever the remote last-modified and
\* check_modified are.
C1_SizeMismatchFetches ==
  \A p \in Procs :
    (/\ Decided(p)
     /\ seen[p].exists
     /\ head[p].size # None
     /\ head[p].size[1] # seen[p].size)
    => dec[p] = "fetch"

\* a size mismatch decided the fetch: check_modified is off and the remote
\* timestamp is older than the local one
C1_Witness ==
  \E p \in Procs :
    /\ dec[p] = "fetch"
    /\ seen[p].exists
    /\ head[p].size # None
    /\ head[p].size[1] # seen[p].size
    /\ ~call[p].cm
    /\ head[p].lm # None
    /\ head[p].lm[1] < seen[p].mtime + tz

\* C2: on both branches, a decision taken while the local file does not
\* exist is a decision to fetch, for every remote size and last-modified
\* (present or absent) and both values of check_modified.
C2_MissingFileFetches ==
  \A p \in Procs :
    (Decided(p) /\ ~seen[p].exists) => dec[p] = "fetch"

\* the file is missing, the remote reports nothing and check_modified is off
C2_Witness ==
  \E p \in Procs :
    /\ dec[p] = "fetch"
    /\ ~seen[p].exists
    /\ head[p].size = None
    /\ head[p].lm = None
    /\ ~call[p].cm

\* C3 as stated: with the remote size absent and the local file present,
\* the fetch is decided by check_modified and the modification times alone.
C3_AbsentSizeFallsThrough ==
  \A p \in Procs :
    (Decided(p) /\ seen[p].exists /\ head[p].size = None)
    => (dec[p] = "fetch" <=>
          (/\ call[p].cm
           /\ \/ head[p].lm = None
              \/ head[p].lm[1] > seen[p].mtime + tz))

\* C3 amended: with the remote size absent and the local file present, the
\* missing size itself triggers the fetch, for both values of check_modified
\* and every remote last-modified; the modification-time test is not
\* reached and no warning is emitted.
C3_AbsentSizeFetches ==
  \A p \in Procs :
    (Decided(p) /\ seen[p].exists /\ head[p].size = None)
    => (dec[p] = "fetch" /\ Count(events[p], "warn") = 0)

\* the cache would have been trusted: check_modified is off, the file exists
C3_Witness ==
  \E p \in Procs :
    /\ dec[p] = "fetch"
    /\ seen[p].exists
    /\ head[p].size = None
    /\ ~call[p].cm
    /\ head[p].lm # None

\* C4 as stated: size absent, last-modified absent, check_modified on and
\* the file present give a fetch and a recorded warning.
C4_AbsentBothWarns ==
  \A p \in Procs :
    (/\ Decided(p)
     /\ seen[p].exists
     /\ head[p].size = None
     /\ head[p].lm = None
     /\ call[p].cm)
    => (dec[p] = "fetch" /\ Count(events[p], "warn") > 0)

\* C4 amended: size absent, last-modified absent, check_modified on and the
\* file present give a fetch, and no warning is recorded during the call.
C4_AbsentBothFetchesSilently ==
  \A p \in Procs :
    (/\ seen[p].exists
     /\ head[p].size = None
     /\ head[p].lm = None
     /\ call[p].cm
     /\ Decided(p))
    => (dec[p] = "fetch" /\ Count(events[p], "warn") = 0)

\* such a call has run to its end
C4_Witness ==
  \E p \in Procs :
    /\ pc[p] = "done"
    /\ dec[p] = "fetch"
    /\ seen[p].exists
    /\ head[p].size = None
    /\ head[p].lm = None
    /\ call[p].cm

\* the second of two successive successful calls, the first of which
\* started from an absent local file
SecondOfTwo(p) ==
  /\ synced[p]
  /\ prev[p].synced
  /\ prev[p].absent

\* C5 as stated: two successive successful calls starting from an absent
\* file make exactly one transfer, whatever the remote metadata is.
C5_Idempotent ==
  \A p \in Procs :
    SecondOfTwo(p) => prev[p].transfers + Transfers(events[p]) = 1

\* C5 amended: two successive successful calls starting from an absent
\* file make exactly one transfer (the first) when the remote reports its
\* size and the second call either has check_modified off or sees a remote
\* last-modified that is present and not later than the local time of the
\* file the first call wrote.
C5_IdempotentWhenComparable ==
  \A p \in Procs :
    (/\ SecondOfTwo(p)
     /\ head[p].size # None
     /\ \/ ~call[p].cm
        \/ /\ head[p].lm # None
           /\ head[p].lm[1] <= seen[p].mtime + tz)
    => (prev[p].transfers = 1 /\ Transfers(events[p]) = 0)

\* a second call with check_modified on that skipped on equal timestamps
C5_Witness ==
  \E p \in Procs :
    /\ SecondOfTwo(p)
    /\ pc[p] = "done"
    /\ call[p].cm
    /\ head[p].size # None
    /\ head[p].lm # None
    /\ head[p].lm[1] = seen[p].mtime + tz
    /\ prev[p].transfers = 1
    /\ dec[p] = "skip"

\* C6: no caller has left open_file_for_url, normally or by an exception,
\* with its handle still open.
C6_HandleReleased ==
  \A p \in Procs :
    pc[p] \in {"done", "raised"} => handle[p] # "open"

\* C7: a call on a URL whose scheme is not exactly http, https or ftp has
\* failed with the unsupported-scheme error as soon as it is dispatched,
\* without any probe or fetch and with the local file as it was.
SupportedSchemes == {SchemeHttp, SchemeHttps, SchemeFtp}

C7_OtherSchemesRejected ==
  \A p \in Procs :
    (/\ scheme \notin SupportedSchemes
     /\ pc[p] \notin {"idle", "dispatch"})
    => (/\ pc[p] = "raised"
        /\ err[p] = "NotImplementedError"
        /\ events[p] = <<>>
        /\ file = call[p].pre)

C9_ProbeFailureSurfaces ==
  \A p \in Procs :
    ProbeFailed(p)
    => (/\ ~synced[p]
        /\ dec[p] = "none"
        /\ Transfers(events[p]) = 0
        /\ \A e \in ProbeEvents : Count(events[p], e) <= 1
        /\ file = call[p].pre
        /\ handle[p] = "none")

\* the SIZE command of a second call failed over an existing local file
C9_Witness ==
  \E p \in Procs :
    /\ ProbeFailed(p)
    /\ events[p] = <<"connect", "mdtm", "size">>
    /\ call[p].pre.exists
    /\ prev[p].transfers = 1

\* C10: a call that decided to fetch never fails because the parent
\* directory of the destination is missing.
C10_ParentDirCreated ==
  \A p \in Procs :
    dec[p] = "fetch" => err[p] # "IOError(ENOENT)"

\* C11: when a fetcher has returned without error, the destination exists,
\* holds the bytes of the remote resource and has the size of the remote
\* resource, whatever file was there before.
C11_FetchLeavesFullResource ==
  \A p \in Procs :
    (dec[p] = "fetch" /\ pc[p] = "returned")
    => (/\ file.exists
        /\ file.size = remote.len
        /\ file.body = "resource")

\* C12: no lock coordinates the callers: a caller that has reached the
\* open(path, 'rb') of open_file_for_url can take that step whatever the
\* other callers are doing, also while one of them is writing the file, and
\* a caller that has reached the open(path, 'wb') of its fetcher can truncate
\* the file whatever handles the other callers hold.
C12_OpenNeverWaits ==
  \A p \in Procs :
    /\ pc[p] = "open_read" => ENABLED OpenRead(p)
    /\ pc[p] = "http_open" => ENABLED HttpOpen(p)
    /\ pc[p] = "ftp_open" => ENABLED FtpOpen(p)

\* one caller holds a handle on a file it opened shorter than the remote
\* resource, while the other caller is still writing that file
C12_Witness ==
  \E p \in Procs, q \in Procs :
    /\ p # q
    /\ pc[p] = "yielded"
    /\ handle[p] = "open"
    /\ rdsize[p] < remote.len
    /\ Writing(q)
    /\ file.size < remote.len

\* the decision of p was taken over an existing local file whose size equals
\* the size the remote reports
SizesAgree(p) ==
  /\ Decided(p)
  /\ seen[p].exists
  /\ head[p].size = Some(seen[p].size)

\* C13: with sizes that agree, check_modified on and a remote last-modified
\* present, the call fetches if and only if the remote last-modified (a GMT
\* time) is strictly later than the modification time of the local file.
C13_FetchIffStrictlyNewer ==
  \A p \in Procs :
    (SizesAgree(p) /\ call[p].cm /\ head[p].lm # None)
    => (dec[p] = "fetch" <=> head[p].lm[1] > seen[p].mtime)

\* C14: with sizes that agree and check_modified off, the call skips the
\* fetch whatever the remote last-modified is, transfers nothing and emits no
\* warning.
C14_NoCheckNoFetch ==
  \A p \in Procs :
    (SizesAgree(p) /\ ~call[p].cm)
    => (/\ dec[p] = "skip"
        /\ Transfers(events[p]) = 0
        /\ Count(events[p], "warn") = 0)

\* a call with check_modified off has ended without a fetch although the
\* remote timestamp is newer than the local one
C14_Witness ==
  \E p \in Procs :
    /\ SizesAgree(p)
    /\ ~call[p].cm
    /\ head[p].lm # None
    /\ head[p].lm[1] > seen[p].mtime + tz
    /\ pc[p] = "done"
    /\ dec[p] = "skip"

\* C15: with sizes that agree, check_modified on and no remote last-modified,
\* the call decides to fetch and emits the warning once; the warning raises
\* nothing: the call goes on to the GET, and only the fetch can fail it.
C15_MissingTimestampWarnsAndFetches ==
  \A p \in Procs :
    (SizesAgree(p) /\ call[p].cm /\ head[p].lm = None)
    => (/\ dec[p] = "fetch"
        /\ Count(events[p], "warn") = 1
        /\ pc[p] = "raised" => Transfers(events[p]) = 1)

\* such a call has completed successfully
C15_Witness ==
  \E p \in Procs :
    /\ SizesAgree(p)
    /\ call[p].cm
    /\ head[p].lm = None
    /\ Count(events[p], "warn") = 1
    /\ synced[p]
    /\ pc[p] = "done"
    /\ file.size = remote.len

\* what one call may log, per protocol: the probe, the decision (with the
\* warning it may emit), at most one body transfer, and the open of
\* open_file_for_url once download_if_new has returned
HttpTraces ==
  {<<"head", "decide">> \o w \o g \o o :
     w \in {<<>>, <<"warn">>}, g \in {<<>>, <<"get">>}, o \in {<<>>, <<"open_r">>}}

FtpTraces ==
  {<<"connect", "mdtm", "size", "decide">> \o g \o o :
     g \in {<<>>, <<"retr">>}, o \in {<<>>, <<"open_r">>}}

Prefixes(S) == UNION {{SubSeq(t, 1, n) : n \in 0..Len(t)} : t \in S}

HttpPrefixes == Prefixes(HttpTraces)

FtpPrefixes == Prefixes(FtpTraces)

\* C16: the steps of every call are a prefix of probe, decision, one fetch of
\* the protocol of the url: no body transfer starts before the probe and the
\* decision, none without a decision to fetch, at most one per call, and the
\* probe leaves the local file as the call found it.
C16_ProbeDecideFetchOnce ==
  \A p \in Procs :
    /\ events[p] \in (CASE DispatchBranch(scheme) = "ftp" -> FtpPrefixes
                        [] DispatchBranch(scheme) = "http" -> HttpPrefixes
                        [] OTHER -> {<<>>})
    /\ \A i \in 1..Len(events[p]) :
         events[p][i] \in {"get", "retr"} => dec[p] = "fetch"
    /\ (pc[p] # "idle" /\ dec[p] = "none") => file = call[p].pre

\* a call has gone through probe, decision and fetch and has returned
C16_Witness ==
  \E p \in Procs :
    /\ events[p] = <<"head", "decide", "get">>
    /\ synced[p]
    /\ file.size = remote.len
    /\ call[p].pre # file

\* C17: a read handle exists only once download_if_new has returned: the
\* decision is taken and the transfer of a fetch has written every block; a
\* call whose sync step has not returned, or has raised, has no handle.
C17_HandleOnlyAfterSync ==
  \A p \in Procs :
    /\ handle[p] # "none" =>
         /\ synced[p]
         /\ Decided(p)
         /\ pc[p] \in {"yielded", "done", "raised"}
         /\ dec[p] = "fetch" => wpos[p] >= remote.len
    /\ ~synced[p] =>
         /\ handle[p] = "none"
         /\ Count(events[p], "open_r") = 0

\* the handle is open on a file this call has just fetched in full
C17_Witness ==
  \E p \in Procs :
    /\ handle[p] = "open"
    /\ pc[p] = "yielded"
    /\ dec[p] = "fetch"
    /\ Transfers(events[p]) = 1
    /\ rdsize[p] = remote.len

\* local states a decision can meet: no file, or a file of any size and age
LocalFiles ==
  {NoFile} \cup
  {[exists |-> TRUE, size |-> s, mtime |-> t, body |-> "old"] :
     s \in 0..MaxSize, t \in 0..MaxTime}

\* probe results with both the size and the last-modified present
FullProbes ==
  [size : {Some(n) : n \in 1..MaxSize}, lm : {Some(t) : t \in 1..MaxTime}]

\* the tests of the two branches give the same answer on every such input
SameDecisionEverywhere ==
  \A h \in FullProbes, f \in LocalFiles, cm \in BOOLEAN, tzoff \in TzOffsets :
    HttpShouldFetch(h, f, cm, tzoff) = FtpShouldFetch(h, f, cm, tzoff)

\* C18: for every probe result with both the size and the last-modified
\* present, the HTTP tests and the FTP tests give the same answer on every
\* local state and both values of check_modified, and the decision of a call
\* that met such a probe result is that answer.
C18_BranchesAgree ==
  \A p \in Procs :
    (Decided(p) /\ head[p].size # None /\ head[p].lm # None)
    => /\ SameDecisionEverywhere
       /\ head[p] \in FullProbes
       /\ dec[p] = "fetch" <=> HttpShouldFetch(head[p], seen[p], call[p].cm, tz)
       /\ dec[p] = "fetch" <=> FtpShouldFetch(head[p], seen[p], call[p].cm, tz)

\* the FTP branch has decided on the second test alone
C18_Witness ==
  \E p \in Procs :
    /\ DispatchBranch(scheme) = "ftp"
    /\ SizesAgree(p)
    /\ call[p].cm
    /\ head[p].lm[1] > seen[p].mtime + tz
    /\ dec[p] = "fetch"

\* the call of p found a truncated file that its previous call, a fetch that
\* failed, had left behind
PartialLeft(p) ==
  /\ prev[p].dec = "fetch"
  /\ ~prev[p].synced
  /\ call[p].pre.exists
  /\ call[p].pre.body # "old"
  /\ call[p].pre.size < remote.len

\* C19: a call that finds the truncated file of a failed fetch, and whose
\* probe reports the remote size, decides to fetch for either value of
\* check_modified; once it has returned the local file has the full size.
C19_PartialFileRefetched ==
  \A p \in Procs :
    (PartialLeft(p) /\ Decided(p) /\ head[p].size # None)
    => /\ dec[p] = "fetch"
       /\ synced[p] => (file.exists /\ file.size = remote.len)

\* such a call, with check_modified off, has completed
C19_Witness ==
  \E p \in Procs :
    /\ PartialLeft(p)
    /\ ~call[p].cm
    /\ head[p].size # None
    /\ synced[p]
    /\ pc[p] = "done"
    /\ file.size = remote.len

\* C20: a call that decides not to fetch leaves the destination as it found
\* it: existence, size, content and modification time.
C20_SkipLeavesFileUntouched ==
  \A p \in Procs :
    dec[p] = "skip" => file = call[p].pre

\* a skipped call has ended at a later second than the file was written
C20_Witness ==
  \E p \in Procs :
    /\ dec[p] = "skip"
    /\ pc[p] = "done"
    /\ file.exists
    /\ now > file.mtime

====
